---- MODULE Spec2Model ----
(***************************************************************************)
(* Model of oemof/outputlib/result_dict.py: the record normalizer          *)
(* (get_tuple, get_timestep, remove_timestep), results_to_df and           *)
(* results_to_dict (pivot into scalars/sequences, duals, string keys).     *)
(*                                                                         *)
(* Python values are represented as follows.                               *)
(*   element        <<"node", id>>  an oemof Node                          *)
(*                  <<"int", t>>    a Python int                           *)
(*                  <<"none", 0>>   None                                   *)
(*   object         [tup |-> TRUE,  el |-> <<e1, ..., en>>]  a tuple       *)
(*                  [tup |-> FALSE, el |-> <<e>>]            a bare element*)
(*   missing value  NaN                                                    *)
(***************************************************************************)
EXTENDS Integers, Sequences, FiniteSets, TLC

VARIABLES es_timeindex, var_dict, has_dual, balance_keys, keys_as_strings,
          pc, err, df, df_dict, results, grouped, ret

vars == <<es_timeindex, var_dict, has_dual, balance_keys, keys_as_strings,
          pc, err, df, df_dict, results, grouped, ret>>

\* ------------------------------------------------------------------ bounds
\* Longest time index of the inputs.
MaxT == 3

\* ---------------------------------------------------------------- elements
Node(i) == <<"node", i>>
PyInt(t) == <<"int", t>>
None == <<"none", 0>>
NaN == -1

Tup(s) == [tup |-> TRUE, el |-> s]
Bare(e) == [tup |-> FALSE, el |-> <<e>>]

\* issubclass(type(i), Node)
IsNode(e) == e[1] = "node"

\* all(issubclass(type(n), Node) for n in x)
AllNodes(s) == \A j \in 1..Len(s) : IsNode(s[j])

\* The nodes of the energy system and their labels (str(node) is the label).
Nodes == {1, 2}
NodeLabel == <<"bel", "storage">>
IntLabel == <<"0", "1", "2", "3", "4", "5">>

\* str(e) for an element of a relation key.
Str(e) == IF IsNode(e) THEN NodeLabel[e[2]]
          ELSE IF e[1] = "int" THEN IntLabel[e[2] + 1] ELSE "None"

\* Node.__lt__ and int ordering, as a rank: the order sorted() and
\* sort_values() see.
ElemRank(e) == IF IsNode(e) THEN 100 + e[2] ELSE e[2]

\* -------------------------------------------------------------- normalizer
\* get_tuple(x), x = (block, variable name, i): the two strings are passed
\* over, a tuple i is returned as it is, a Node i is wrapped, and for anything
\* else the loop ends and the function returns None.
get_tuple(x) ==
  IF x.index.tup THEN x.index
  ELSE IF IsNode(x.index.el[1]) THEN Tup(<<x.index.el[1]>>)
  ELSE Bare(None)

\* get_timestep and remove_timestep iterate over x: None is not iterable.
Iterable(x) == x.tup

\* get_timestep(x): 0 when all elements are Nodes, else the last element.
get_timestep(x) ==
  IF AllNodes(x.el) THEN PyInt(0) ELSE x.el[Len(x.el)]

\* remove_timestep(x): x when all elements are Nodes, else x[:-1].
remove_timestep(x) ==
  IF AllNodes(x.el) THEN x ELSE Tup(SubSeq(x.el, 1, Len(x.el) - 1))

\* ----------------------------------------------------------------- sorting
RECURSIVE LexLess(_, _)
\* Python's tuple comparison on the ranks of the elements.
LexLess(a, b) ==
  IF Len(a) = 0 THEN Len(b) > 0
  ELSE IF Len(b) = 0 THEN FALSE
  ELSE IF a[1] # b[1] THEN a[1] < b[1]
  ELSE LexLess(Tail(a), Tail(b))

Ranks(s) == [j \in 1..Len(s) |-> ElemRank(s[j])]

\* Order of two sort keys <<tuple of elements, int>>.
KeyLess(a, b) == \/ LexLess(Ranks(a[1]), Ranks(b[1]))
                 \/ a[1] = b[1] /\ a[2] < b[2]

RECURSIVE InsertSorted(_, _)
\* x put after the last item of the sorted s that is not greater (stable).
InsertSorted(x, s) ==
  IF Len(s) = 0 THEN <<x>>
  ELSE IF KeyLess(x.key, s[1].key) THEN <<x>> \o s
  ELSE <<s[1]>> \o InsertSorted(x, Tail(s))

RECURSIVE SortKeyed(_)
\* Stable sort of a sequence of [key, item] by key.
SortKeyed(s) ==
  IF Len(s) = 0 THEN << >>
  ELSE InsertSorted(s[Len(s)], SortKeyed(SubSeq(s, 1, Len(s) - 1)))

Items(s) == [j \in 1..Len(s) |-> s[j].item]

\* df.sort_values(['oemof_tuple', 'timestep'], ascending=[True, True])
sort_values(rows) ==
  Items(SortKeyed([j \in 1..Len(rows) |->
      [key |-> <<rows[j].oemof_tuple.el, rows[j].timestep[2]>>,
       item |-> rows[j]]]))

\* Mutant of sorted: the keys stay in the order they are iterated in.
sorted_as_iterated(keys) == keys

\* sorted(om.Bus.balance.iterkeys()): keys are tuples (bus, t).
sorted(keys) ==
  Items(SortKeyed([j \in 1..Len(keys) |->
      [key |-> <<<<keys[j][1], PyInt(keys[j][2])>>, 0>>, item |-> keys[j]]]))

\* ------------------------------------------------------------ results_to_df
\* One row of the DataFrame of results_to_df for one item of var_dict.
df_row(x) ==
  [pyomo_tuple |-> <<x.block, x.name, x.index>>,
   value |-> x.value,
   variable_name |-> x.name,
   oemof_tuple |-> remove_timestep(get_tuple(x)),
   timestep |-> get_timestep(get_tuple(x))]

\* Whether df['oemof_tuple'].map(get_timestep) raises TypeError.
map_raises(items) == \E j \in 1..Len(items) : ~Iterable(get_tuple(items[j]))

\* The DataFrame results_to_df returns.
results_to_df(items) == sort_values([j \in 1..Len(items) |-> df_row(items[j])])

\* ---------------------------------------------------------- results_to_dict
RECURSIVE SortedSeq(_)
\* The ascending sequence of a finite set of integers.
SortedSeq(S) ==
  IF S = {} THEN << >>
  ELSE LET m == CHOOSE x \in S : \A y \in S : x <= y
       IN <<m>> \o SortedSeq(S \ {m})

\* The keys of df.groupby('oemof_tuple').
group_keys(rows) == {rows[j].oemof_tuple.el : j \in 1..Len(rows)}

\* The group of key k with the columns timestep, variable_name and value.
group_rows(rows, k) ==
  LET InGroup(r) == r.oemof_tuple.el = k
      g == SelectSeq(rows, InGroup)
  IN [j \in 1..Len(g) |-> [timestep |-> g[j].timestep,
                            variable_name |-> g[j].variable_name,
                            value |-> g[j].value]]

\* pivot raises ValueError when two rows share timestep and variable_name.
pivot_raises(g) ==
  \E i, j \in 1..Len(g) : /\ i < j
                           /\ g[i].timestep = g[j].timestep
                           /\ g[i].variable_name = g[j].variable_name

\* set_index('timestep') and pivot(columns='variable_name', values='value'):
\* one row per distinct timestep in ascending order, one column per variable
\* name, NaN where the group has no row.
pivot(g) ==
  LET steps == SortedSeq({g[j].timestep[2] : j \in 1..Len(g)})
      names == {g[j].variable_name : j \in 1..Len(g)}
      Cell(n, t) ==
        IF \E j \in 1..Len(g) : g[j].variable_name = n /\ g[j].timestep[2] = t
        THEN g[CHOOSE j \in 1..Len(g) :
                 g[j].variable_name = n /\ g[j].timestep[2] = t].value
        ELSE NaN
  IN [index |-> steps,
      columns |-> [n \in names |-> [i \in 1..Len(steps) |-> Cell(n, steps[i])]]]

\* df_dict[k].index = es.timeindex raises ValueError on a length mismatch.
set_index_raises(table, timeindex) == Len(table.index) # Len(timeindex)

\* Mutant of set_index: the rows keep the time steps as labels.
set_index_kept(table, timeindex) == table

\* df_dict[k].index = es.timeindex: the rows are relabelled by position.
set_index(table, timeindex) == [index |-> timeindex, columns |-> table.columns]

\* df.isnull().any(): the columns that hold a missing value.
null_columns(table) ==
  {n \in DOMAIN table.columns :
     \E i \in 1..Len(table.index) : table.columns[n][i] = NaN}

\* The positions of the rows that .loc[:, isnull().any()].dropna() keeps: the
\* rows in which none of the selected columns is missing.
dropna_rows(table) ==
  {i \in 1..Len(table.index) :
     \A n \in null_columns(table) : table.columns[n][i] # NaN}

\* .iloc[0] raises IndexError when dropna() left no row.
scalars_raises(table) == dropna_rows(table) = {}

\* scalars = df.loc[:, df.isnull().any()].dropna().iloc[0]
scalars_of(table) ==
  LET first == CHOOSE i \in dropna_rows(table) :
                 \A j \in dropna_rows(table) : i <= j
  IN [n \in null_columns(table) |-> table.columns[n][first]]

\* sequences = df.loc[:, ~(df.isnull().any())]
sequences_of(table) ==
  [index |-> table.index,
   columns |-> [n \in DOMAIN table.columns \ null_columns(table) |->
                  table.columns[n]]]

\* ------------------------------------------------------------------- duals
\* The first group of itertools.groupby(..., lambda p: p[0]): the longest
\* prefix of keys with the bus of the first.
RECURSIVE first_group(_)
first_group(keys) ==
  IF Len(keys) <= 1 THEN keys
  ELSE IF keys[2][1] = keys[1][1]
       THEN <<keys[1]>> \o first_group(Tail(keys))
       ELSE <<keys[1]>>

\* om.dual[om.Bus.balance[bus, t]]: the dual of a balance constraint.
dual(bus, t) == 1000 * bus[2] + 11 * (t + 1)

\* duals = [om.dual[om.Bus.balance[bus, t]] for _, t in timesteps]
duals_of(grp) == [j \in 1..Len(grp) |-> dual(grp[1][1], grp[j][2])]

\* Mutant of dataframe_raises: the duals are taken whatever their number.
dataframe_never_raises(duals, timeindex) == FALSE

\* pd.DataFrame({'duals': duals}, index=es.timeindex) raises ValueError when
\* the lengths differ.
dataframe_raises(duals, timeindex) == Len(duals) # Len(timeindex)

\* The entry of a bus that had none: the duals frame and an empty Series.
new_duals_entry(duals, timeindex) ==
  [scalars |-> << >>,
   sequences |-> [index |-> timeindex, columns |-> ("duals" :> duals)]]

\* results[(bus,)]['sequences']['duals'] = duals
add_duals_column(entry, duals) ==
  [scalars |-> entry.scalars,
   sequences |-> [index |-> entry.sequences.index,
                  columns |-> ("duals" :> duals) @@ entry.sequences.columns]]

\* ------------------------------------------------------------- string keys
\* Mutant of string_key: the label of the first node alone.
string_key_first(k) == <<Str(k[1])>>

\* tuple([str(e) for e in k])
string_key(k) == [j \in 1..Len(k) |-> Str(k[j])]

\* ------------------------------------------------------------------ inputs
\* The i-th timestamp of es.timeindex (i from 0).
\* Timestamps are counted in hours from the first of the index, at hour Start.
Start == 1000
Timestamp(i) == Start + i
TimeIndex(T) == [i \in 1..T |-> Timestamp(i - 1)]

K1 == <<Node(1)>>
K12 == <<Node(1), Node(2)>>
K21 == <<Node(2), Node(1)>>

\* A slot is a time step, or NoStep for an index without one.
NoStep == -1
Slots == {NoStep} \cup (0..(MaxT - 1))

\* The index pyomo gives a variable of relation key k: (n, n, t), (n, n),
\* (n, t), and the bare node n.
IndexOf(k, slot) ==
  IF slot # NoStep THEN Tup(k \o <<PyInt(slot)>>)
  ELSE IF Len(k) = 1 THEN Bare(k[1]) ELSE Tup(k)

BlockOf(name) == IF name = "flow" THEN "Flow" ELSE "InvestmentFlow"

\* The solver's value of a variable: distinct for distinct (key, name, slot),
\* flow 10, 20, 30 and invest 500 on the key (bel, storage).
ValueOf(k, name, slot) ==
  (IF k = K12 THEN 0 ELSE IF k = K21 THEN 1000 ELSE 2000)
  + (IF name = "flow" THEN (IF slot = NoStep THEN 5 ELSE 10 * (slot + 1))
     ELSE (IF slot = NoStep THEN 500 ELSE 501 + slot))

\* One item of var_dict.
Item(k, name, slot) ==
  [block |-> BlockOf(name), name |-> name, index |-> IndexOf(k, slot),
   value |-> ValueOf(k, name, slot)]

\* The items of one variable of one key at the slots of S, in slot order.
ItemsOf(k, name, S) ==
  LET sl == SortedSeq(S) IN [j \in 1..Len(sl) |-> Item(k, name, sl[j])]

Reverse(s) == [j \in 1..Len(s) |-> s[Len(s) + 1 - j]]

\* The odd positions of s, then the even ones.
Shuffle(s) ==
  LET odd == (Len(s) + 1) \div 2
  IN [j \in 1..Len(s) |-> IF j <= odd THEN s[2 * j - 1] ELSE s[2 * (j - odd)]]

\* Enumeration orders of a dict or of a set of keys.
Orders(s) == {s, Reverse(s), Shuffle(s)}

Input(T, items, hd, bal, kas) ==
  [T |-> T, items |-> items, has_dual |-> hd, balance |-> bal, kas |-> kas]

\* One relation key, every subset of slots for each of two variables.
InputsOneKey ==
  {Input(T, items, FALSE, << >>, FALSE) :
     T \in 0..MaxT,
     items \in UNION {Orders(ItemsOf(K12, "flow", F) \o ItemsOf(K12, "invest", V)) :
                        F \in SUBSET Slots, V \in SUBSET Slots}}

\* What a key holds in a well-formed model: nothing, a flow for every time
\* step, or that and an investment.
Shapes == {"none", "seq", "seq+scalar"}
ShapeItems(k, shape, T) ==
  IF shape = "none" THEN << >>
  ELSE ItemsOf(k, "flow", 0..(T - 1))
       \o (IF shape = "seq+scalar" THEN ItemsOf(k, "invest", {NoStep}) ELSE << >>)

\* The balance constraints of a bus at the time steps 0..n-1.
BalanceOf(b, n) == [j \in 1..n |-> <<Node(b), j - 1>>]

\* The model's balance constraints: with duals, each bus has none, one per
\* time step, or one fewer or one more; without, one per time step.
DualConfigs(T) ==
  {<<FALSE, BalanceOf(1, T) \o BalanceOf(2, T)>>}
  \cup {<<TRUE, bal>> :
          bal \in UNION {Orders(BalanceOf(1, n1) \o BalanceOf(2, n2)) :
                           n1 \in {0, T - 1, T, T + 1}, n2 \in {0, T}}}

\* Several keys, balance constraints of both buses, string keys.
SystemAt(T) ==
  {Input(T, items, dc[1], dc[2], kas) :
     items \in {ShapeItems(K12, s12, T) \o ShapeItems(K1, s1, T)
                  \o ShapeItems(K21, s21, T) :
                    s1 \in Shapes, s12 \in Shapes, s21 \in Shapes},
     dc \in DualConfigs(T),
     kas \in BOOLEAN}

InputsSystem == UNION {SystemAt(T) : T \in 1..MaxT}

\* Indices that hold no Node: a bare int, None, tuples of ints.
OddIndices ==
  {Bare(PyInt(0)), Bare(None), Tup(<<PyInt(0)>>), Tup(<<PyInt(0), PyInt(1)>>)}

\* The 1-tuple (n,) of a node, which get_timestep's docstring lists.
OtherIndices == OddIndices \cup {Tup(<<Node(2)>>)}

\* One variable with such an index, alone or beside a flow.
InputsOtherIndex ==
  UNION {{Input(T, items, FALSE, << >>, FALSE) :
            items \in UNION {Orders(<<[block |-> "Flow", name |-> "flow",
                                        index |-> ix, value |-> 7]>>
                                     \o ShapeItems(K12, shape, T)) :
                               ix \in OtherIndices, shape \in {"none", "seq"}}} :
         T \in 1..2}

\* s with the value of its j-th item missing (the variable has no value).
WithMissing(s, j) == [s EXCEPT ![j].value = NaN]

\* A flow and possibly an investment, one of the values missing.
InputsMissing ==
  UNION {{Input(T, WithMissing(ShapeItems(K12, shape, T), j), FALSE, << >>, FALSE) :
            shape \in {"seq", "seq+scalar"}, j \in 1..T} :
         T \in 1..MaxT}

Inputs == InputsOneKey \cup InputsSystem \cup InputsOtherIndex \cup InputsMissing

\* ------------------------------------------------------------------ actions
Init ==
  \E inp \in Inputs :
    /\ es_timeindex = TimeIndex(inp.T)
    /\ var_dict = inp.items
    /\ has_dual = inp.has_dual
    /\ balance_keys = inp.balance
    /\ keys_as_strings = inp.kas
    /\ pc = "results_to_df"
    /\ err = [type |-> "none", line |-> 0]
    /\ df = << >>
    /\ df_dict = << >>
    /\ results = << >>
    /\ grouped = << >>
    /\ ret = << >>

\* An exception leaves results_to_dict: nothing is returned. err holds the
\* exception and the line of result_dict.py that raised it.
Raise(type, line) ==
  /\ pc' = "raised"
  /\ err' = [type |-> type, line |-> line]

\* df = results_to_df(es, om)
ResultsToDf ==
  /\ pc = "results_to_df"
  /\ IF map_raises(var_dict)
     THEN Raise("TypeError", 82) /\ UNCHANGED df
     ELSE /\ df' = results_to_df(var_dict)
          /\ pc' = "groupby"
          /\ UNCHANGED err
  /\ UNCHANGED <<es_timeindex, var_dict, has_dual, balance_keys,
                 keys_as_strings, df_dict, results, grouped, ret>>

\* df_dict = {k: v[[...]] for k, v in df.groupby('oemof_tuple')}
GroupBy ==
  /\ pc = "groupby"
  /\ df_dict' = [k \in group_keys(df) |-> group_rows(df, k)]
  /\ pc' = "split"
  /\ UNCHANGED <<es_timeindex, var_dict, has_dual, balance_keys,
                 keys_as_strings, err, df, results, grouped, ret>>

\* One pass of the loop over df_dict.items().
SplitEntry ==
  /\ pc = "split"
  /\ \E k \in DOMAIN df_dict \ DOMAIN results :
       IF pivot_raises(df_dict[k])
       THEN Raise("ValueError", 113) /\ UNCHANGED results
       ELSE IF set_index_raises(pivot(df_dict[k]), es_timeindex)
       THEN Raise("ValueError", 114) /\ UNCHANGED results
       ELSE LET table == set_index(pivot(df_dict[k]), es_timeindex)
            IN IF scalars_raises(table)
               THEN Raise("IndexError", 115) /\ UNCHANGED results
               ELSE /\ results' = (k :> [scalars |-> scalars_of(table),
                                          sequences |-> sequences_of(table)])
                                   @@ results
                    /\ UNCHANGED <<pc, err>>
  /\ UNCHANGED <<es_timeindex, var_dict, has_dual, balance_keys,
                 keys_as_strings, df, df_dict, grouped, ret>>

\* The loop is over: if hasattr(om, 'dual'), grouped = groupby(sorted(...)).
SplitDone ==
  /\ pc = "split"
  /\ DOMAIN df_dict \ DOMAIN results = {}
  /\ grouped' = IF has_dual THEN sorted(balance_keys) ELSE << >>
  /\ pc' = "duals"
  /\ UNCHANGED <<es_timeindex, var_dict, has_dual, balance_keys,
                 keys_as_strings, err, df, df_dict, results, ret>>

\* One pass of the loop over grouped.
AddDuals ==
  /\ pc = "duals"
  /\ grouped # << >>
  /\ LET grp == first_group(grouped)
         bus == <<grp[1][1]>>
         duals == duals_of(grp)
     IN /\ grouped' = SubSeq(grouped, Len(grp) + 1, Len(grouped))
        /\ IF dataframe_raises(duals, es_timeindex)
           THEN Raise("ValueError", 124) /\ UNCHANGED results
           ELSE /\ results' =
                     IF bus \notin DOMAIN results
                     THEN (bus :> new_duals_entry(duals, es_timeindex)) @@ results
                     ELSE [results EXCEPT ![bus] = add_duals_column(@, duals)]
                /\ UNCHANGED <<pc, err>>
  /\ UNCHANGED <<es_timeindex, var_dict, has_dual, balance_keys,
                 keys_as_strings, df, df_dict, ret>>

\* The dict {tuple([str(e) for e in k]): v for k, v in results.items()}: of
\* the keys with one string key, the one iterated last stays.
string_keys(res, last) == [s \in DOMAIN last |-> res[last[s]]]

\* if keys_as_strings is True: ...; return results
Return ==
  /\ pc = "duals"
  /\ grouped = << >>
  /\ IF keys_as_strings
     THEN \E last \in [{string_key(k) : k \in DOMAIN results} -> DOMAIN results] :
            /\ \A s \in DOMAIN last : string_key(last[s]) = s
            /\ ret' = string_keys(results, last)
     ELSE ret' = results
  /\ pc' = "returned"
  /\ UNCHANGED <<es_timeindex, var_dict, has_dual, balance_keys,
                 keys_as_strings, err, df, df_dict, results, grouped>>

Next == ResultsToDf \/ GroupBy \/ SplitEntry \/ SplitDone \/ AddDuals \/ Return

Spec == Init /\ [][Next]_vars

\* ------------------------------------------------------------------ claims
\* What the claims say of a raw index, stated on the index itself.
RECURSIVE NodePrefix(_)
\* The maximal leading sub-tuple of Nodes.
NodePrefix(s) ==
  IF Len(s) = 0 \/ ~IsNode(s[1]) THEN << >>
  ELSE <<s[1]>> \o NodePrefix(Tail(s))

HasNode(ix) == \E j \in 1..Len(ix.el) : IsNode(ix.el[j])

\* The index ends in a time step.
HasStep(ix) == ix.tup /\ Len(ix.el) > 0 /\ ix.el[Len(ix.el)][1] = "int"

\* One or two Nodes, then at most one time step.
Documented(ix) ==
  LET p == NodePrefix(ix.el)
  IN /\ Len(p) \in {1, 2}
     /\ \/ ix.el = p
        \/ HasStep(ix) /\ Len(ix.el) = Len(p) + 1

Returned == pc = "returned"
Raised == pc = "raised"
T == Len(es_timeindex)
Positions == 0..(T - 1)

\* The items of variable n of relation key k.
ItemsAt(k, n) ==
  {j \in 1..Len(var_dict) :
     /\ Documented(var_dict[j].index)
     /\ NodePrefix(var_dict[j].index.el) = k
     /\ var_dict[j].name = n}
RelationKeys ==
  {NodePrefix(var_dict[j].index.el) :
     j \in {i \in 1..Len(var_dict) : Documented(var_dict[i].index)}}
Names == {var_dict[j].name : j \in 1..Len(var_dict)}
AllDocumented == \A j \in 1..Len(var_dict) : Documented(var_dict[j].index)
NoneMissing == \A j \in 1..Len(var_dict) : var_dict[j].value # NaN

\* The time steps the items of a variable carry.
StepsAt(k, n) ==
  {var_dict[j].index.el[Len(var_dict[j].index.el)][2] :
     j \in {i \in ItemsAt(k, n) : HasStep(var_dict[i].index)}}
\* The variable has an item without a time step.
Stepless(k, n) == \E j \in ItemsAt(k, n) : ~HasStep(var_dict[j].index)

\* A variable is a scalar (one item, no time step) or a sequence (one item for
\* each position of the time index, and no other).
IsScalarVar(k, n) == Stepless(k, n) /\ StepsAt(k, n) = {}
IsSequenceVar(k, n) == ~Stepless(k, n) /\ StepsAt(k, n) = Positions
WellFormed ==
  /\ AllDocumented /\ NoneMissing
  /\ \A k \in RelationKeys, n \in Names :
       ItemsAt(k, n) # {} => IsScalarVar(k, n) \/ IsSequenceVar(k, n)

\* C1: for T >= 1, on records whose variables are scalars or full sequences,
\* results_to_dict does not fail in the split, and in the store it returns a
\* variable is in its key's scalars exactly if its records carry no time step
\* and in its key's sequences exactly if they carry one.
C1_Classification ==
  (T >= 1 /\ WellFormed) =>
    /\ ~(Raised /\ err.line \in {113, 114, 115})
    /\ Returned =>
         \A k \in RelationKeys, n \in Names :
           ItemsAt(k, n) # {} =>
             /\ k \in DOMAIN results
             /\ n \in DOMAIN results[k].scalars <=> IsScalarVar(k, n)
             /\ n \in DOMAIN results[k].sequences.columns <=> IsSequenceVar(k, n)

\* The example of C1: flow 10, 20, 30 and invest 500 on one key.
C1_Example ==
  (Returned /\ T = 3 /\ WellFormed /\ RelationKeys = {K12}
     /\ IsSequenceVar(K12, "flow") /\ IsScalarVar(K12, "invest")) =>
    /\ results[K12].sequences.columns = ("flow" :> <<10, 20, 30>>)
    /\ results[K12].sequences.index = TimeIndex(3)
    /\ results[K12].scalars = ("invest" :> 500)

\* C3: results_to_dict does not return when a variable has items for some but
\* not all time steps of the time index, or the time steps of a key's items
\* are not the positions 0..T-1.
C3_AlignmentError ==
  (\E k \in RelationKeys :
     LET steps == UNION {StepsAt(k, n) : n \in Names}
     IN \/ \E n \in Names : /\ StepsAt(k, n) # {}
                            /\ StepsAt(k, n) \subseteq Positions
                            /\ StepsAt(k, n) # Positions
        \/ steps # {} /\ steps # Positions)
    => ~Returned

\* C6: when an item's index holds no Node, extraction fails at once:
\* results_to_df raises and no row, key or entry is made.
C6_MissingIndex ==
  (\E j \in 1..Len(var_dict) : ~HasNode(var_dict[j].index)) =>
    /\ pc \in {"results_to_df", "raised"}
    /\ df = << >> /\ results = << >>

\* The rows of results_to_df for the index forms the docstrings name (one or
\* two Nodes, then at most one time step): the Nodes are the relation key, the
\* time step, or 0 when there is none, is the timestep; every item has its row.
DocumentedFormsNormalized ==
  pc \notin {"results_to_df", "raised"} =>
    /\ Len(df) = Len(var_dict)
    /\ \A j \in 1..Len(var_dict) :
         \E i \in 1..Len(df) : df[i].pyomo_tuple[3] = var_dict[j].index
                                /\ df[i].variable_name = var_dict[j].name
                                /\ df[i].value = var_dict[j].value
    /\ \A i \in 1..Len(df) :
         LET ix == df[i].pyomo_tuple[3]
         IN Documented(ix) =>
              /\ df[i].oemof_tuple = Tup(NodePrefix(ix.el))
              /\ Len(df[i].oemof_tuple.el) \in {1, 2}
              /\ df[i].timestep =
                   IF HasStep(ix) THEN ix.el[Len(ix.el)] ELSE PyInt(0)

\* C8: for every raw index that results_to_df makes a row of, the relation key
\* is the maximal leading sub-tuple of Nodes, of length 1 or 2, and the
\* timestep is the trailing element that is no Node, or 0 without one.
C8_Normalizer ==
  \A i \in 1..Len(df) :
    LET ix == df[i].pyomo_tuple[3]
    IN /\ df[i].oemof_tuple = Tup(NodePrefix(ix.el))
       /\ Len(df[i].oemof_tuple.el) \in {1, 2}
       /\ df[i].timestep =
            IF AllNodes(ix.el) THEN PyInt(0) ELSE ix.el[Len(ix.el)]

\* C2: in the store results_to_dict returns, every entry's sequences table has
\* len(es.timeindex) rows, labelled by the time index in order.
C2_RowCount ==
  Returned =>
    \A k \in DOMAIN ret :
      /\ ret[k].sequences.index = es_timeindex
      /\ \A n \in DOMAIN ret[k].sequences.columns :
           Len(ret[k].sequences.columns[n]) = T

\* A returned store with an entry of duals alone and one that gained duals.
C2_Witness ==
  /\ Returned /\ T >= 2
  /\ \E k \in DOMAIN ret : DOMAIN ret[k].sequences.columns = {"duals"}
  /\ \E k \in DOMAIN ret : DOMAIN ret[k].sequences.columns = {"duals", "flow"}

\* The time steps of the balance constraints of bus b.
BusSteps(b) ==
  {balance_keys[j][2] :
     j \in {i \in 1..Len(balance_keys) : balance_keys[i][1] = Node(b)}}

\* The duals of bus b by ascending time step.
DualsByStep(b) ==
  LET steps == SortedSeq(BusSteps(b))
  IN [i \in 1..Len(steps) |-> dual(Node(b), steps[i])]

\* C4 (the returned store): with duals, the entry of every bus with balance
\* constraints has the column duals, its i-th value the dual of the constraint
\* of the i-th time step in ascending order; a bus without variables has
\* that column alone and no scalars.
C4_DualsValues ==
  (Returned /\ has_dual) =>
    \A b \in Nodes :
      BusSteps(b) # {} =>
        /\ <<Node(b)>> \in DOMAIN results
        /\ "duals" \in DOMAIN results[<<Node(b)>>].sequences.columns
        /\ results[<<Node(b)>>].sequences.columns["duals"] = DualsByStep(b)
        /\ <<Node(b)>> \notin DOMAIN df_dict =>
             /\ DOMAIN results[<<Node(b)>>].sequences.columns = {"duals"}
             /\ results[<<Node(b)>>].scalars = << >>

\* C4 (each pass over grouped): an entry keeps its scalars, its row labels and
\* its columns; the one column it may gain is duals.
C4_DualsAdded ==
  (pc = "duals" /\ pc' = "duals") =>
    \A k \in DOMAIN results :
      /\ k \in DOMAIN results'
      /\ results'[k].scalars = results[k].scalars
      /\ results'[k].sequences.index = results[k].sequences.index
      /\ DOMAIN results'[k].sequences.columns \subseteq
           DOMAIN results[k].sequences.columns \cup {"duals"}
      /\ \A n \in DOMAIN results[k].sequences.columns \ {"duals"} :
           /\ n \in DOMAIN results'[k].sequences.columns
           /\ results'[k].sequences.columns[n] = results[k].sequences.columns[n]

\* C4: the duals of every bus, in time step order, for any iteration order of
\* the balance constraints, in a new entry or added to the existing one.
C4_Duals == [](C4_DualsValues) /\ [][C4_DualsAdded]_vars

\* Duals from keys that did not come sorted: one bus gains the column beside
\* its flow, the other gets a new entry.
C4_Witness ==
  /\ Returned /\ has_dual /\ T >= 2
  /\ balance_keys # sorted(balance_keys)
  /\ K1 \in DOMAIN df_dict
  /\ DOMAIN results[K1].sequences.columns = {"duals", "flow"}
  /\ <<Node(2)>> \in DOMAIN results

\* A bus has balance constraints, but not one for each time step.
DualsMismatch ==
  /\ has_dual
  /\ \E b \in Nodes : BusSteps(b) # {} /\ Cardinality(BusSteps(b)) # T

C7_StringKeys ==
  (Returned /\ keys_as_strings) =>
    /\ Cardinality(DOMAIN ret) = Cardinality(DOMAIN results)
    /\ \A k \in DOMAIN results :
         LET labels == [j \in 1..Len(k) |-> NodeLabel[k[j][2]]]
         IN labels \in DOMAIN ret /\ ret[labels] = results[k]

\* String keys of a store with 1-tuples and 2-tuples of the same nodes.
C7_Witness ==
  /\ Returned /\ keys_as_strings
  /\ {K1, K12, K21} \subseteq DOMAIN results
  /\ {<<"bel">>, <<"bel", "storage">>, <<"storage", "bel">>} \subseteq DOMAIN ret

\* The time step of an item as a row of the pivot table: 0 without one.
RowStep(j) ==
  IF HasStep(var_dict[j].index)
  THEN var_dict[j].index.el[Len(var_dict[j].index.el)][2] ELSE 0

\* The items of a variable that hold a value.
ValuedAt(k, n) == {j \in ItemsAt(k, n) : var_dict[j].value # NaN}

\* C9: a scalar is the variable's own first value in time step order, and
\* taking the scalars fails only for a variable without any value.
C9_ScalarValue ==
  /\ (Raised /\ err.line = 115) =>
       \E k \in RelationKeys, n \in Names :
         ItemsAt(k, n) # {} /\ ValuedAt(k, n) = {}
  /\ (Returned /\ AllDocumented) =>
       \A k \in RelationKeys :
         \A n \in DOMAIN results[k].scalars :
           \E j \in ValuedAt(k, n) :
             /\ \A i \in ValuedAt(k, n) : RowStep(j) <= RowStep(i)
             /\ results[k].scalars[n] = var_dict[j].value

\* The store results_to_dict makes of items, without duals: raised, or the
\* entries.
Outcome(items) ==
  IF map_raises(items) THEN [raised |-> TRUE, store |-> << >>]
  ELSE LET d == results_to_df(items)
           Table(k) == set_index(pivot(group_rows(d, k)), es_timeindex)
       IN IF \E k \in group_keys(d) :
               \/ pivot_raises(group_rows(d, k))
               \/ set_index_raises(pivot(group_rows(d, k)), es_timeindex)
               \/ scalars_raises(Table(k))
          THEN [raised |-> TRUE, store |-> << >>]
          ELSE [raised |-> FALSE,
                store |-> [k \in group_keys(d) |->
                             [scalars |-> scalars_of(Table(k)),
                              sequences |-> sequences_of(Table(k))]]]

\* C10 (order): the outcome is that of the same items enumerated in another
\* order.
C10_OrderIndependent ==
  (~has_dual /\ ~keys_as_strings /\ (Returned \/ Raised)) =>
    \A other \in Orders(var_dict) :
      Outcome(other) = [raised |-> Raised, store |-> ret]

\* C10 (rows): the row of the i-th timestamp of a sequence holds the value of
\* the item with time step i.
C10_RowsByStep ==
  (Returned /\ AllDocumented) =>
    \A k \in RelationKeys :
      \A n \in DOMAIN results[k].sequences.columns \ {"duals"} :
        \A i \in 1..T :
          \E j \in ItemsAt(k, n) :
            /\ RowStep(j) = i - 1
            /\ var_dict[j].value = results[k].sequences.columns[n][i]

\* C10: the store is a function of the set of items and the time index, and
\* the row of the i-th timestamp holds the value of time step i.
C10_Deterministic == C10_OrderIndependent /\ C10_RowsByStep

====
